---- MODULE Spec2Model ----
(***************************************************************************)
(* A model of the IFC extractor pages (src/pages/wall-extract.py and       *)
(* src/pages/plan_extract.py): the per-element mesh projection, the storey *)
(* and elevation grouping, and the wall centerline reduction.              *)
(*                                                                         *)
(* Numbers.  Plan coordinates (X, Y) are integers in model units.  Z and   *)
(* storey elevations are integers in millimetres, so "rounded to 2         *)
(* decimals" is "rounded to the nearest 10 mm".  Every float the code      *)
(* computes is modelled by the exact rational it approximates, plus NaN:   *)
(* a float is a record [nan, num, den] with den > 0.  Rounding noise of    *)
(* IEEE arithmetic is not modelled.                                        *)
(***************************************************************************)
EXTENDS Integers, Sequences, FiniteSets, TLC

(***************************************************************************)
(* Bounds of the model.                                                    *)
(***************************************************************************)
MaxPts == 2
MaxIdx == 6
MaxVerts == 3
MaxElems == 2

MaxSelected == 2

(***************************************************************************)
(* Floats: exact rationals, and NaN.                                       *)
(***************************************************************************)
NaN == [nan |-> TRUE, num |-> 0, den |-> 1]

Rat(n, d) == [nan |-> FALSE, num |-> n, den |-> d]

IsNaN(a) == a.nan

\* Python's == on floats: NaN equals nothing, itself included.
FloatEq(a, b) == ~a.nan /\ ~b.nan /\ a.num * b.den = b.num * a.den

\* Python's < on floats: every comparison with NaN is False.
FloatLt(a, b) == ~a.nan /\ ~b.nan /\ a.num * b.den < b.num * a.den

Abs(i) == IF i < 0 THEN -i ELSE i

Sign(i) == IF i < 0 THEN -1 ELSE IF i > 0 THEN 1 ELSE 0

RECURSIVE SumSeq(_)
SumSeq(s) == IF s = <<>> THEN 0 ELSE Head(s) + SumSeq(Tail(s))

\* Floor division for a positive divisor (TLC's \div floors already; kept
\* explicit where the sign of the dividend matters).
FloorDiv(n, d) == n \div d

\* round(n/d) to the nearest integer, ties to even (Python's round()).
RoundDiv(n, d) ==
    LET q == FloorDiv(n, d)
        r == n - q * d
    IN  IF 2 * r < d THEN q
        ELSE IF 2 * r > d THEN q + 1
        ELSE IF q % 2 = 0 THEN q ELSE q + 1

\* The largest r with r * r <= x, for x >= 0.
RECURSIVE IsqrtFrom(_, _, _)
IsqrtFrom(x, lo, hi) ==
    IF lo >= hi THEN lo
    ELSE LET mid == (lo + hi + 1) \div 2
         IN  IF mid * mid <= x THEN IsqrtFrom(x, mid, hi)
             ELSE IsqrtFrom(x, lo, mid - 1)

Isqrt(x) == IsqrtFrom(x, 0, IF x < 46340 THEN x ELSE 46340)

\* round(a, 2) of a float holding millimetres: the nearest 10 mm, as a float.
\* round(x): to whole units instead of 2 decimals.
Round2_WholeUnits(a) == IF a.nan THEN NaN ELSE Rat(1000 * RoundDiv(a.num, 1000 * a.den), 1)

Round2(a) == IF a.nan THEN NaN ELSE Rat(10 * RoundDiv(a.num, 10 * a.den), 1)

\* round(float(a), 2) of a coordinate in model units, in hundredths.
Round2Coord(a) == IF a.nan THEN NaN ELSE Rat(RoundDiv(100 * a.num, a.den), 100)

(***************************************************************************)
(* Mesh3D and the shape evaluator's interface: geometry.verts is the flat  *)
(* list of coordinates, geometry.faces the flat list of face indices.      *)
(***************************************************************************)
RECURSIVE Flatten(_)
Flatten(ss) == IF ss = <<>> THEN <<>> ELSE Head(ss) \o Flatten(Tail(ss))

ShapeVerts(mesh) == Flatten(mesh.points)

\* Face indices counted from 1.
ShapeFaces_OneBased(mesh) == [i \in 1..Len(Flatten(mesh.faces)) |-> Flatten(mesh.faces)[i] + 1]

ShapeFaces(mesh) == Flatten(mesh.faces)

\* np.array(flat).reshape((-1, 3)) raises ValueError unless 3 divides the size.
Reshape3Ok(flat) == Len(flat) % 3 = 0

Reshape3(flat) ==
    [i \in 1..(Len(flat) \div 3) |-> <<flat[3 * i - 2], flat[3 * i - 1], flat[3 * i]>>]

\* A projection that keeps the columns [0, 2] instead of [0, 1].
DropZ_KeepsXZ(vertices) == [i \in 1..Len(vertices) |-> <<vertices[i][1], vertices[i][3]>>]

\* vertices[:, [0, 1]]
DropZ(vertices) == [i \in 1..Len(vertices) |-> <<vertices[i][1], vertices[i][2]>>]

\* np.mean(vertices[:, 2]): NaN (and a RuntimeWarning) for an empty slice.
MeanZ(vertices) ==
    IF vertices = <<>> THEN NaN
    ELSE Rat(SumSeq([i \in 1..Len(vertices) |-> vertices[i][3]]), Len(vertices))

\* The outcome of a try block that raised.
Raised == [ok |-> FALSE]

\* The body of the per-element try block once create_shape returned `mesh`:
\* element_info, or the exception of a reshape.  `hint` is the storey's
\* elevation (wall-extract.py) and NoHint selects np.mean of Z
\* (plan_extract.py).  gid is the element's GlobalId, kept to tell the
\* collected records apart; the code's dict does not hold it.
NoHint == [given |-> FALSE, value |-> 0]

\* The value of a Name attribute: None, or a string.
NoName == [none |-> TRUE, text |-> ""]

Named(s) == [none |-> FALSE, text |-> s]

Hint(e) == [given |-> TRUE, value |-> e]

\* element_info whose elevation is always the mean of Z.
ElementInfo_IgnoresHint(type, gid, name, mesh, hint) ==
    LET verts == ShapeVerts(mesh)
        faces == ShapeFaces(mesh)
    IN  IF ~Reshape3Ok(verts) \/ ~Reshape3Ok(faces) THEN Raised
        ELSE [ok |-> TRUE, type |-> type, gid |-> gid, name |-> name,
              vertices |-> DropZ(Reshape3(verts)),
              faces |-> Reshape3(faces),
              elevation |-> MeanZ(Reshape3(verts))]

ElementInfo(type, gid, name, mesh, hint) ==
    LET verts == ShapeVerts(mesh)
        faces == ShapeFaces(mesh)
    IN  IF ~Reshape3Ok(verts) \/ ~Reshape3Ok(faces) THEN Raised
        ELSE LET vertices == Reshape3(verts)
             IN  [ok |-> TRUE,
                  type |-> type,
                  gid |-> gid,
                  name |-> name,
                  vertices |-> DropZ(vertices),
                  faces |-> Reshape3(faces),
                  elevation |-> IF hint.given THEN Rat(hint.value, 1)
                                ELSE MeanZ(vertices)]

(***************************************************************************)
(* The wall centerline computation (wall-extract.py, lines 230-257) on the *)
(* 2-D vertex sequence v.  With n = Len(v), the centred points are kept    *)
(* scaled by n and the covariance matrix [[a, b], [b, c]] scaled by        *)
(* n * n * (n - 1): a positive scale changes neither the eigenvectors nor  *)
(* the sign of a projection.                                               *)
(***************************************************************************)
SumX(v) == SumSeq([i \in 1..Len(v) |-> v[i][1]])

SumY(v) == SumSeq([i \in 1..Len(v) |-> v[i][2]])

\* Centring on the first vertex instead of the mean.
CenteredPts_OnFirstVertex(v) ==
    [i \in 1..Len(v) |-> <<Len(v) * (v[i][1] - v[1][1]), Len(v) * (v[i][2] - v[1][2])>>]

\* No centring at all.
CenteredPts_NotCentred(v) == [i \in 1..Len(v) |-> <<Len(v) * v[i][1], Len(v) * v[i][2]>>]

\* centered_pts = vertices - np.mean(vertices, axis=0), times n.
CenteredPts(v) ==
    LET n == Len(v)
        sx == SumX(v)
        sy == SumY(v)
    IN  [i \in 1..n |-> <<n * v[i][1] - sx, n * v[i][2] - sy>>]

\* cov_matrix = np.cov(centered_pts.T), times n * n * (n - 1): <<a, b, c>>
\* stands for [[a, b], [b, c]].
CovMatrix(u) ==
    <<SumSeq([i \in 1..Len(u) |-> u[i][1] * u[i][1]]),
      SumSeq([i \in 1..Len(u) |-> u[i][1] * u[i][2]]),
      SumSeq([i \in 1..Len(u) |-> u[i][2] * u[i][2]])>>

\* The sign of P - Q * sqrt(D) for P, Q > 0 and D > 0, by integer arithmetic
\* on numbers of the size of D: with r = floor(sqrt(D)), q = floor(P / Q)
\* and P = q Q + t, the sign is that of q - r unless q = r, and then that of
\* (r + t/Q)^2 - D.
SignDiffSurd(P, Q, D) ==
    LET r == Isqrt(D)
        q == P \div Q
        t == P % Q
    IN  IF q # r THEN Sign(q - r)
        ELSE Sign(2 * r * t * Q + t * t - (D - r * r) * Q * Q)

\* The sign of P + Q * sqrt(D), for D >= 0.
SignSurd(P, Q, D) ==
    IF Q = 0 \/ D = 0 THEN Sign(P)
    ELSE IF P = 0 THEN Sign(Q)
    ELSE IF Sign(P) = Sign(Q) THEN Sign(P)
    ELSE IF P > 0 THEN SignDiffSurd(P, -Q, D)
    ELSE -SignDiffSurd(-P, Q, D)

\* The projection on eigenvectors[:, 0], the eigenvector of the smaller
\* eigenvalue, instead of eigenvectors[:, -1].
PrincipalSign_SmallerEigenvalue(m, p) ==
    LET a == m[1]
        b == m[2]
        c == m[3]
    IN  IF b = 0 THEN (IF a > c THEN Sign(p[2]) ELSE Sign(p[1]))
        ELSE SignSurd(2 * b * p[1] + (c - a) * p[2], -p[2],
                      (a - c) * (a - c) + 4 * b * b)

\* The sign of np.dot(p, principal_direction), principal_direction being
\* eigenvectors[:, -1] of m, the eigenvector of the larger eigenvalue, taken
\* with a non-negative last non-zero component.  For b = 0 the matrix is
\* diagonal and eigh returns unit vectors ordered by ascending eigenvalue:
\* (1, 0) if a > c, else (0, 1).  Otherwise the eigenvector is
\* (2b, (c - a) + sqrt((a - c)^2 + 4 b^2)).
PrincipalSign(m, p) ==
    LET a == m[1]
        b == m[2]
        c == m[3]
    IN  IF b = 0 THEN (IF a > c THEN Sign(p[1]) ELSE Sign(p[2]))
        ELSE SignSurd(2 * b * p[1] + (c - a) * p[2], p[2],
                      (a - c) * (a - c) + 4 * b * b)

\* The signs of projected - np.mean(projected), position by position.  The
\* projections of centred points sum to 0, so the mean is 0.
ProjectedSigns(v) ==
    LET u == CenteredPts(v)
        m == CovMatrix(u)
    IN  [i \in 1..Len(v) |-> PrincipalSign(m, u[i])]

\* The positions a boolean mask selects, in order.
RECURSIVE MaskFrom(_, _)
MaskFrom(mask, i) ==
    IF i > Len(mask) THEN <<>>
    ELSE (IF mask[i] THEN <<i>> ELSE <<>>) \o MaskFrom(mask, i + 1)

\* projected <= np.mean(projected)
BelowMean_OrEqual(v, sgn) ==
    LET ps == ProjectedSigns(v) IN [i \in 1..Len(v) |-> sgn * ps[i] <= 0]

\* projected < np.mean(projected); sgn is the sign eigh gave the eigenvector.
BelowMean(v, sgn) ==
    LET ps == ProjectedSigns(v) IN [i \in 1..Len(v) |-> sgn * ps[i] < 0]

\* projected > np.mean(projected)
NotBelowMean_Strict(v, sgn) ==
    LET ps == ProjectedSigns(v) IN [i \in 1..Len(v) |-> sgn * ps[i] > 0]

\* projected >= np.mean(projected)
NotBelowMean(v, sgn) ==
    LET ps == ProjectedSigns(v) IN [i \in 1..Len(v) |-> sgn * ps[i] >= 0]

\* vertices[projected < np.mean(projected)], as positions of v.
Cluster1(v, sgn) == MaskFrom(BelowMean(v, sgn), 1)

\* vertices[projected >= np.mean(projected)], as positions of v.
Cluster2(v, sgn) == MaskFrom(NotBelowMean(v, sgn), 1)

NaNPoint == [x |-> NaN, y |-> NaN]

\* np.mean(points, axis=0) of the vertices at positions idx: NaN for none.
MeanPoint(v, idx) ==
    IF idx = <<>> THEN NaNPoint
    ELSE [x |-> Rat(SumSeq([k \in 1..Len(idx) |-> v[idx[k]][1]]), Len(idx)),
          y |-> Rat(SumSeq([k \in 1..Len(idx) |-> v[idx[k]][2]]), Len(idx))]

\* np.linalg.norm(end_point - start_point): the length is sqrt(sq) / den.
NaNLength == [nan |-> TRUE, sq |-> 0, den |-> 1]

Norm(s, e) ==
    IF s.x.nan \/ s.y.nan \/ e.x.nan \/ e.y.nan THEN NaNLength
    ELSE LET dx == e.x.num * s.x.den - s.x.num * e.x.den
             dy == e.y.num * s.y.den - s.y.num * e.y.den
         IN  [nan |-> FALSE, sq |-> dx * dx + dy * dy, den |-> s.x.den * e.x.den]

\* What lines 234-257 leave in start_point, end_point and length.
Segment(v, sgn) ==
    LET c1 == Cluster1(v, sgn)
        c2 == Cluster2(v, sgn)
        s == MeanPoint(v, c1)
        e == MeanPoint(v, c2)
    IN  [raised |-> FALSE, cluster1 |-> c1, cluster2 |-> c2,
         start |-> s, end |-> e, length |-> Norm(s, e)]

SegmentRaised ==
    [raised |-> TRUE, cluster1 |-> <<>>, cluster2 |-> <<>>,
     start |-> NaNPoint, end |-> NaNPoint, length |-> NaNLength]

SegmentAllNaN ==
    [raised |-> FALSE, cluster1 |-> <<>>, cluster2 |-> <<>>,
     start |-> NaNPoint, end |-> NaNPoint, length |-> NaNLength]

\* The outcomes of lines 234-257.  No vertex: np.argmin of an empty array
\* raises ValueError (if eigh did not raise first).  One vertex: np.cov
\* divides by n - 1 = 0 and gives a NaN matrix, on which eigh either raises
\* LinAlgError or returns NaN, depending on the LAPACK build; with NaN every
\* comparison is False and both clusters are empty.
CenterlineOutcomes(v, sgn) ==
    IF Len(v) = 0 THEN {SegmentRaised}
    ELSE IF Len(v) = 1 THEN {SegmentRaised, SegmentAllNaN}
    ELSE {Segment(v, sgn)}

\* round(float(length), 2), in hundredths: round(100 * sqrt(sq) / den), which
\* is floor((2 sqrt(10000 sq) + den) / (2 den)) but for a tie, which goes to
\* the even neighbour.
Round2Length(l) ==
    IF l.nan THEN NaN
    ELSE LET r == Isqrt(40000 * l.sq)
             q == (r + l.den) \div (2 * l.den)
             tie == r * r = 40000 * l.sq /\ (r + l.den) % (2 * l.den) = 0
         IN  Rat(IF tie /\ q % 2 = 1 THEN q - 1 ELSE q, 100)

\* The row wall_data.append stores (lines 259-267).
WallRow(element, seg) ==
    [gid |-> element.gid,
     Name |-> element.name,
     Elevation |-> Round2(element.elevation),
     Start_X |-> Round2Coord(seg.start.x),
     Start_Y |-> Round2Coord(seg.start.y),
     End_X |-> Round2Coord(seg.end.x),
     End_Y |-> Round2Coord(seg.end.y),
     Length |-> Round2Length(seg.length)]

(***************************************************************************)
(* State.  pc is the position of the run.  The pages' variables keep the   *)
(* names of the code; mesh/projection and cloud/segment hold the input and *)
(* the result when the projection and the centerline computation are run   *)
(* on their own.                                                           *)
(***************************************************************************)
VARIABLES pc,
          mesh, projection,
          cloud, eigsign, segment, transform, cloud2, segment2,
          page, storeys, ifc, si, queue, element_data, storey_data, warnings,
          unique_elevations, selected, todo, level_elements, wall_data, error,
          drawn, legend, table, simple_drawn,
          env, widgets, runs,
          file_to_process, tmp_file_path, tmp_file, unlinked

funVars == <<mesh, projection, cloud, eigsign, segment, transform, cloud2, segment2>>

pageVars == <<page, storeys, ifc, si, queue, element_data, storey_data, warnings,
              unique_elevations, selected, todo, level_elements, wall_data, error>>

plotVars == <<drawn, legend, table, simple_drawn>>

runVars == <<env, widgets, runs>>

fileVars == <<file_to_process, tmp_file_path, tmp_file, unlinked>>

otherVars == <<runVars, fileVars>>

vars == <<pc, funVars, pageVars, plotVars, otherVars>>

NoMesh == [points |-> <<>>, faces |-> <<>>]

NoTransform == [kind |-> "none", perm |-> <<>>, shift |-> <<0, 0>>]

PlotIdle == drawn = <<>> /\ legend = <<>> /\ table = <<>> /\ simple_drawn = <<>>

\* Before the first run: eigh has not been called, no widget has returned a
\* value, no run of the script is on record.
RunsIdle == env = {} /\ widgets = <<>> /\ runs = <<>>

\* Before the try block: no temporary copy on disk, the name tmp_file_path
\* not bound, os.unlink not called.
NoTempFile == tmp_file_path = FALSE /\ tmp_file = "none" /\ unlinked = 0

\* The file is an upload (an UploadedFile object, not a str).
FileIdle == file_to_process = "upload" /\ NoTempFile

ProjectIdle == mesh = NoMesh /\ projection = Raised

ReducerIdle ==
    /\ cloud = <<>>
    /\ eigsign = 1
    /\ segment = SegmentRaised
    /\ transform = NoTransform
    /\ cloud2 = <<>>
    /\ segment2 = SegmentRaised

PagesIdle ==
    /\ page = "none"
    /\ storeys = <<>>
    /\ ifc = <<>>
    /\ si = 0
    /\ queue = <<>>
    /\ element_data = <<>>
    /\ storey_data = <<>>
    /\ warnings = <<>>
    /\ unique_elevations = <<>>
    /\ selected = <<>>
    /\ todo = <<>>
    /\ level_elements = <<>>
    /\ wall_data = <<>>
    /\ error = "none"
    /\ PlotIdle
    /\ RunsIdle
    /\ FileIdle

\* All sequences over S of length 0..n.
SeqsUpTo(S, n) == UNION {[1..k -> S] : k \in 0..n}

(***************************************************************************)
(* The projection on its own: the input is any Mesh3D of the data model,   *)
(* faces being index sequences of length >= 3 within bounds.               *)
(***************************************************************************)
PointChoices == {<<0, 1, 3000>>, <<4, 2, 0>>}

RECURSIVE FaceLists(_, _)
FaceLists(n, budget) ==
    {<<>>} \cup
    UNION {{<<f>> \o rest : f \in [1..k -> 0..(n - 1)], rest \in FaceLists(n, budget - k)}
           : k \in 3..budget}

Meshes(maxPts, maxIdx) ==
    UNION {{[points |-> ps, faces |-> fs] :
                ps \in [1..n -> PointChoices],
                fs \in IF n = 0 THEN {<<>>} ELSE FaceLists(n, maxIdx)}
           : n \in 0..maxPts}

HintChoices == {0, 3000}

InitProject ==
    /\ pc = "mesh"
    /\ mesh \in Meshes(MaxPts, MaxIdx)
    /\ projection = Raised
    /\ ReducerIdle
    /\ PagesIdle

\* wall-extract.py: the element takes the storey's elevation.
ProjectWithHint ==
    /\ pc = "mesh"
    /\ \E e \in HintChoices : projection' = ElementInfo("Slab", 1, Named("Slab"), mesh, Hint(e))
    /\ pc' = "projected"
    /\ UNCHANGED <<mesh, cloud, eigsign, segment, transform, cloud2, segment2, pageVars, plotVars, otherVars>>

\* plan_extract.py: the element takes the mean of its Z coordinates.
ProjectMeanZ ==
    /\ pc = "mesh"
    /\ projection' = ElementInfo("Slab", 1, Named("Slab"), mesh, NoHint)
    /\ pc' = "projected"
    /\ UNCHANGED <<mesh, cloud, eigsign, segment, transform, cloud2, segment2, pageVars, plotVars, otherVars>>

NextProject == ProjectWithHint \/ ProjectMeanZ

SpecProject == InitProject /\ [][NextProject]_vars

(***************************************************************************)
(* The centerline computation on its own: the input is any vertex sequence *)
(* on a small grid, or the box wall of the spec in either orientation.     *)
(***************************************************************************)
BoxPoints == <<<<0, 0, 0>>, <<1, 0, 0>>, <<1, 5, 0>>, <<0, 5, 0>>,
               <<0, 0, 3000>>, <<1, 0, 3000>>, <<1, 5, 3000>>, <<0, 5, 3000>>>>

BoxCloud == DropZ(BoxPoints)

BoxCloudSwapped == [i \in 1..Len(BoxCloud) |-> <<BoxCloud[i][2], BoxCloud[i][1]>>]

Coords == 0..2

GridPoints == {<<x, y>> : x \in Coords, y \in Coords}

Clouds == SeqsUpTo(GridPoints, MaxVerts) \cup {BoxCloud, BoxCloudSwapped}

Shifts == {<<1, 0>>, <<0, -2>>, <<-3, 2>>}

PermuteCloud(v, p) == [i \in 1..Len(v) |-> v[p[i]]]

TranslateCloud(v, t) == [i \in 1..Len(v) |-> <<v[i][1] + t[1], v[i][2] + t[2]>>]

Cov(v) == <<Len(v), CovMatrix(CenteredPts(v))>>

\* eigh is a function of its argument: on the matrix of the first run it
\* gives the eigenvector the sign it gave then, on another matrix either.
EigSigns(v) == IF Cov(v) = Cov(cloud) THEN {eigsign} ELSE {1, -1}

InitReducer ==
    /\ pc = "cloud"
    /\ cloud \in Clouds
    /\ eigsign \in {1, -1}
    /\ segment = SegmentRaised
    /\ transform = NoTransform
    /\ cloud2 = <<>>
    /\ segment2 = SegmentRaised
    /\ ProjectIdle
    /\ PagesIdle

Reduce ==
    /\ pc = "cloud"
    /\ segment' \in CenterlineOutcomes(cloud, eigsign)
    /\ pc' = "reduced"
    /\ UNCHANGED <<mesh, projection, cloud, eigsign, transform, cloud2, segment2, pageVars, plotVars, otherVars>>

\* The permutations are enumerated for clouds of up to MaxVerts vertices.
ReducePermuted ==
    /\ pc = "reduced"
    /\ Len(cloud) <= MaxVerts
    /\ \E p \in Permutations(1..Len(cloud)) :
          /\ transform' = [kind |-> "permute", perm |-> p, shift |-> <<0, 0>>]
          /\ cloud2' = PermuteCloud(cloud, p)
    /\ \E sgn \in EigSigns(cloud2') : segment2' \in CenterlineOutcomes(cloud2', sgn)
    /\ pc' = "transformed"
    /\ UNCHANGED <<mesh, projection, cloud, eigsign, segment, pageVars, plotVars, otherVars>>

ReduceTranslated ==
    /\ pc = "reduced"
    /\ \E t \in Shifts :
          /\ transform' = [kind |-> "translate", perm |-> <<>>, shift |-> t]
          /\ cloud2' = TranslateCloud(cloud, t)
    /\ \E sgn \in EigSigns(cloud2') : segment2' \in CenterlineOutcomes(cloud2', sgn)
    /\ pc' = "transformed"
    /\ UNCHANGED <<mesh, projection, cloud, eigsign, segment, pageVars, plotVars, otherVars>>

NextReducer == Reduce \/ ReducePermuted \/ ReduceTranslated

SpecReducer == InitReducer /\ [][NextReducer]_vars

(***************************************************************************)
(* The pages.  The model file holds the storeys and a sequence of elements *)
(* (file order), each contained in one storey.  An element's shape is what *)
(* ifcopenshell.geom.create_shape does for it: it raises, or it returns a  *)
(* triangulated mesh, in world coordinates (the storey's elevation added   *)
(* to Z).                                                                  *)
(***************************************************************************)
StoreyChoices ==
    {<<[Name |-> "Level 1", Elevation |-> 0], [Name |-> "Level 2", Elevation |-> 3000]>>,
     <<[Name |-> "Level 1", Elevation |-> 0], [Name |-> "Level 1A", Elevation |-> 50]>>,
     <<[Name |-> "_Plant", Elevation |-> 0], [Name |-> "Level 2", Elevation |-> 3000]>>,
     <<[Name |-> "Level 1", Elevation |-> 0], [Name |-> "Level 2", Elevation |-> 3005]>>,
     <<[Name |-> "Level 1", Elevation |-> 0], [Name |-> "Annex", Elevation |-> 0]>>}

ElementTypes == {"IfcSlab", "IfcWall", "IfcWallStandardCase"}

ShapeFails == [fails |-> TRUE, mesh |-> NoMesh]

EmptyMesh == [fails |-> FALSE, mesh |-> NoMesh]

TriangleMesh ==
    [fails |-> FALSE,
     mesh |-> [points |-> <<<<0, 0, 0>>, <<4, 0, 0>>, <<0, 2, 300>>>>,
               faces |-> <<<<0, 1, 2>>>>]]

SegmentMesh ==
    [fails |-> FALSE,
     mesh |-> [points |-> <<<<0, 0, 0>>, <<0, 4, 0>>>>, faces |-> <<<<0, 1, 0>>>>]]

ShapeChoices == {ShapeFails, EmptyMesh, TriangleMesh, SegmentMesh}

Models(ss) ==
    UNION {{[i \in 1..k |-> [gid |-> i, type |-> ty[i], Name |-> Named("Element"), storey |-> st[i],
                              shape |-> sh[i]]] :
                ty \in [1..k -> ElementTypes],
                st \in [1..k -> 1..Len(ss)],
                sh \in [1..k -> ShapeChoices]}
           : k \in 0..MaxElems}

\* A 2 x 2 slab as two triangles sharing a diagonal.
QuadMesh ==
    [fails |-> FALSE,
     mesh |-> [points |-> <<<<0, 0, 0>>, <<2, 0, 0>>, <<2, 2, 0>>, <<0, 2, 0>>>>,
               faces |-> <<<<0, 1, 2>>, <<0, 2, 3>>>>]]

\* The box wall: 1 x 5 in plan, 3 m high, two triangles per side.
BoxMesh ==
    [fails |-> FALSE,
     mesh |-> [points |-> BoxPoints,
               faces |-> <<<<0, 1, 2>>, <<0, 2, 3>>, <<4, 5, 6>>, <<4, 6, 7>>,
                           <<0, 1, 5>>, <<0, 5, 4>>, <<1, 2, 6>>, <<1, 6, 5>>,
                           <<2, 3, 7>>, <<2, 7, 6>>, <<3, 0, 4>>, <<3, 4, 7>>>>]]

\* Further model files: a storey holding one slab and one box wall, and a
\* wall of two triangles whose Name has no value.
ExtraModels_SlabAndBoxWall ==
    <<[gid |-> 1, type |-> "IfcSlab", Name |-> Named("Floor"), storey |-> 1,
       shape |-> QuadMesh],
      [gid |-> 2, type |-> "IfcWall", Name |-> Named("Wall A"), storey |-> 1,
       shape |-> BoxMesh]>>

ExtraModels ==
    {ExtraModels_SlabAndBoxWall,
     <<[gid |-> 1, type |-> "IfcWall", Name |-> NoName, storey |-> 1,
        shape |-> QuadMesh]>>,
     <<[gid |-> 1, type |-> "IfcSlab", Name |-> NoName, storey |-> 2,
        shape |-> QuadMesh]>>}

\* The mesh create_shape returns with USE_WORLD_COORDS.
WorldMesh(el) ==
    LET dz == storeys[el.storey].Elevation
    IN  [points |-> [i \in 1..Len(el.shape.mesh.points) |->
                        <<el.shape.mesh.points[i][1], el.shape.mesh.points[i][2],
                          el.shape.mesh.points[i][3] + dz>>],
         faces |-> el.shape.mesh.faces]

\* e.is_a('IfcSlab')
IsSlab(e) == e.type = "IfcSlab"

\* A test for the exact type IfcWall only.
IsWall_ExactType(e) == e.type = "IfcWall"

\* e.is_a('IfcWall') or e.is_a('IfcWallStandardCase'): is_a holds for subtypes.
IsWall(e) == e.type \in {"IfcWall", "IfcWallStandardCase"}

\* hasattr(element, 'Name'): Name is an attribute of IfcRoot in the schema,
\* so every slab and every wall has it, with or without a value.
HasAttrName(e) == e.type \in ElementTypes

\* slab.Name if hasattr(slab, 'Name') else "Unnamed"
ElementName(e) == IF HasAttrName(e) THEN e.Name ELSE Named("Unnamed")

\* wall-extract.py and wall-extract2.py are the same up to the plot.
WallPages == {"wall-extract", "wall-extract2"}

\* The try block of one element: create_shape, then the projection.
TryElement(type, el, hint) ==
    IF el.shape.fails THEN Raised
    ELSE ElementInfo(type, el.gid, ElementName(el), WorldMesh(el), hint)

\* A try/except that lets the exception reach the page's outer handler.
AfterElement_Propagates(data, warns, outcome, gid) ==
    IF outcome.ok
    THEN [element_data |-> Append(data, outcome), warnings |-> warns, fatal |-> FALSE]
    ELSE [element_data |-> data, warnings |-> warns, fatal |-> TRUE]

\* A failure that empties the collection.
AfterElement_DropsCollected(data, warns, outcome, gid) ==
    IF outcome.ok
    THEN [element_data |-> Append(data, outcome), warnings |-> warns, fatal |-> FALSE]
    ELSE [element_data |-> <<>>, warnings |-> Append(warns, gid), fatal |-> FALSE]

\* try: ... element_data.append(element_info)
\* except Exception as e: st.warning(f"Could not process ... {GlobalId}: ...")
AfterElement(data, warns, outcome, gid) ==
    IF outcome.ok
    THEN [element_data |-> Append(data, outcome), warnings |-> warns, fatal |-> FALSE]
    ELSE [element_data |-> data, warnings |-> Append(warns, gid), fatal |-> FALSE]

Init ==
    /\ pc = "open"
    /\ page \in WallPages \cup {"plan_extract", "streamlit_app"}
    /\ storeys \in StoreyChoices
    /\ ifc \in Models(storeys) \cup ExtraModels
    /\ si = 0
    /\ queue = <<>>
    /\ element_data = <<>>
    /\ storey_data = <<>>
    /\ warnings = <<>>
    /\ unique_elevations = <<>>
    /\ selected = <<>>
    /\ todo = <<>>
    /\ level_elements = <<>>
    /\ wall_data = <<>>
    /\ error = "none"
    /\ PlotIdle
    /\ RunsIdle
    /\ FileIdle
    /\ ProjectIdle
    /\ ReducerIdle

\* isinstance(file_to_process, str): a sample is a path, an upload is not.
IsStr(f) == f = "sample"

\* Lines 43-45, the with block run to its end: the copy is written and
\* closed and tmp_file_path is bound; a sample is opened where it is.
TempCopy ==
    IF IsStr(file_to_process)
    THEN UNCHANGED <<tmp_file, tmp_file_path>>
    ELSE tmp_file' = "written" /\ tmp_file_path' = TRUE

\* ifcopenshell.open succeeds; wall-extract.py stops (st.stop()) if there
\* is no storey.
OpenModel ==
    /\ pc = "open"
    /\ TempCopy
    /\ pc' = IF page = "plan_extract" THEN "by_type"
             ELSE IF page = "streamlit_app" THEN "tables"
             ELSE IF storeys = <<>> THEN "stopped" ELSE "storey"
    /\ si' = 1
    /\ UNCHANGED <<funVars, plotVars, runVars, file_to_process, unlinked, page, storeys, ifc, queue,
                   element_data, storey_data, warnings,
                   unique_elevations, selected, todo, level_elements, wall_data, error>>

\* ifcopenshell.open raises: the page's outer handler reports it.
OpenFails ==
    /\ pc = "open"
    /\ TempCopy
    /\ pc' = "done"
    /\ error' = "open"
    /\ UNCHANGED <<funVars, plotVars, runVars, file_to_process, unlinked, page, storeys, ifc, si, queue,
                   element_data, storey_data,
                   warnings, unique_elevations, selected, todo, level_elements, wall_data>>

\* tmp_file.write raises (no space left on the device): the file that
\* NamedTemporaryFile created stays, tmp_file_path is not bound, and the
\* page's outer handler reports the error.
WriteFails ==
    /\ pc = "open"
    /\ ~IsStr(file_to_process)
    /\ tmp_file' = "partial"
    /\ pc' = "done"
    /\ error' = "write"
    /\ UNCHANGED <<funVars, plotVars, runVars, file_to_process, tmp_file_path, unlinked, page, storeys,
                   ifc, si, queue, element_data, storey_data,
                   warnings, unique_elevations, selected, todo, level_elements, wall_data>>

\* A clean-up that never unlinks.
Unlinks_Never(f, bound) == FALSE

\* Line 367: isinstance(file_to_process, str) == False and
\* 'tmp_file_path' in locals()
Unlinks(f, bound) == IsStr(f) = FALSE /\ bound

\* Lines 366-368, the finally clause: it runs when the try block ends, when
\* the outer handler has reported an exception, and when st.stop() raises
\* StopException, which is no Exception and passes the handler.
Finally ==
    /\ pc \in {"done", "exported", "stopped"}
    /\ pc' = "end"
    /\ IF Unlinks(file_to_process, tmp_file_path)
       THEN tmp_file' = "deleted" /\ unlinked' = unlinked + 1
       ELSE UNCHANGED <<tmp_file, unlinked>>
    /\ UNCHANGED <<funVars, pageVars, plotVars, runVars, file_to_process, tmp_file_path>>

(***************************************************************************)
(* wall-extract.py                                                         *)
(***************************************************************************)
\* rel_elements of storey i: the related elements of its containment.
RelElements(i) == SelectSeq(ifc, LAMBDA e : e.storey = i)

\* The walls' loop before the slabs' loop.
StoreyQueue_WallsFirst(storey_slabs, storey_walls) == storey_walls \o storey_slabs

\* Lines 73 and 96: the slabs' loop runs first, then the walls' loop.
StoreyQueue(storey_slabs, storey_walls) == storey_slabs \o storey_walls

\* Lines 58-70: the slabs and the walls of the next storey.
WX_BeginStorey ==
    /\ page \in WallPages /\ pc = "storey" /\ si <= Len(storeys)
    /\ LET storey_slabs == SelectSeq(RelElements(si), IsSlab)
           storey_walls == SelectSeq(RelElements(si), IsWall)
       IN  IF storey_slabs # <<>> \/ storey_walls # <<>>
           THEN /\ queue' = StoreyQueue(storey_slabs, storey_walls)
                /\ element_data' = <<>>
                /\ pc' = "elements"
                /\ si' = si
           ELSE /\ si' = si + 1
                /\ UNCHANGED <<queue, element_data, pc>>
    /\ UNCHANGED <<funVars, plotVars, otherVars, page, storeys, ifc, storey_data, warnings, unique_elevations,
                   selected, todo, level_elements, wall_data, error>>

\* One pass of a per-element loop: the try block, then append or warn.
ProcessHead(type, hint) ==
    LET el == Head(queue)
        r == AfterElement(element_data, warnings, TryElement(type, el, hint), el.gid)
    IN  /\ element_data' = r.element_data
        /\ warnings' = r.warnings
        /\ error' = IF r.fatal THEN "element" ELSE error
        /\ pc' = IF r.fatal THEN "done" ELSE pc
        /\ queue' = Tail(queue)

\* Lines 73-93.
WX_ProcessSlab ==
    /\ page \in WallPages /\ pc = "elements"
    /\ queue # <<>> /\ IsSlab(Head(queue))
    /\ ProcessHead("Slab", Hint(storeys[si].Elevation))
    /\ UNCHANGED <<funVars, plotVars, otherVars, page, storeys, ifc, si, storey_data, unique_elevations,
                   selected, todo, level_elements, wall_data>>

\* Lines 96-116.
WX_ProcessWall ==
    /\ page \in WallPages /\ pc = "elements"
    /\ queue # <<>> /\ IsWall(Head(queue))
    /\ ProcessHead("Wall", Hint(storeys[si].Elevation))
    /\ UNCHANGED <<funVars, plotVars, otherVars, page, storeys, ifc, si, storey_data, unique_elevations,
                   selected, todo, level_elements, wall_data>>

\* d[key] = value on a dict kept as a sequence of entries in insertion order.
DictSet(d, key, value) ==
    IF \E k \in 1..Len(d) : d[k].Name = key
    THEN [k \in 1..Len(d) |-> IF d[k].Name = key THEN value ELSE d[k]]
    ELSE Append(d, value)

\* Lines 118-122.
WX_EndStorey ==
    /\ page \in WallPages /\ pc = "elements" /\ queue = <<>>
    /\ storey_data' =
          IF element_data # <<>>
          THEN DictSet(storey_data, storeys[si].Name,
                       [Name |-> storeys[si].Name,
                        elevation |-> Rat(storeys[si].Elevation, 1),
                        elements |-> element_data])
          ELSE storey_data
    /\ si' = si + 1
    /\ pc' = "storey"
    /\ UNCHANGED <<funVars, plotVars, otherVars, page, storeys, ifc, queue, element_data, warnings,
                   unique_elevations, selected, todo, level_elements, wall_data, error>>

\* Line 362: no storey kept any element.
WX_NoGeometry ==
    /\ page \in WallPages /\ pc = "storey" /\ si > Len(storeys)
    /\ storey_data = <<>>
    /\ pc' = "done"
    /\ UNCHANGED <<funVars, pageVars, plotVars, otherVars>>

\* The sequences without repetition over the positions 1..n: what a
\* multiselect over n options can return, of up to MaxSelected options.
Selections(n) ==
    {s \in SeqsUpTo(1..n, IF n < MaxSelected THEN n ELSE MaxSelected) :
        \A i, j \in 1..Len(s) : i # j => s[i] # s[j]}

\* Lines 124-135: the user selects storeys.
WX_SelectStoreys ==
    /\ page \in WallPages /\ pc = "storey" /\ si > Len(storeys)
    /\ storey_data # <<>>
    /\ \E s \in Selections(Len(storey_data)) :
          selected' = [i \in 1..Len(s) |-> storey_data[s[i]].Name]
    /\ todo' = selected'
    /\ level_elements' = <<>>
    /\ widgets' = Append(widgets, [kind |-> "storeys", value |-> selected'])
    /\ pc' = "types"
    /\ UNCHANGED <<funVars, plotVars, env, runs, fileVars, page, storeys, ifc, si, queue, element_data, storey_data,
                   warnings, unique_elevations, wall_data, error>>

StoreyNamed(name) == storey_data[CHOOSE k \in 1..Len(storey_data) : storey_data[k].Name = name]

\* Lines 136-154: the user selects element types for the next selected storey.
WX_SelectTypes ==
    /\ page \in WallPages /\ pc = "types" /\ todo # <<>>
    /\ LET storey == StoreyNamed(Head(todo))
           available_types == {storey.elements[k].type : k \in 1..Len(storey.elements)}
       IN  \E selected_types \in SUBSET available_types :
             /\ level_elements' =
                   level_elements \o
                   SelectSeq(storey.elements, LAMBDA e : e.type \in selected_types)
             /\ widgets' = Append(widgets, [kind |-> "types", value |-> selected_types])
    /\ todo' = Tail(todo)
    /\ UNCHANGED <<funVars, plotVars, env, runs, fileVars, pc, page, storeys, ifc, si, queue, element_data, storey_data,
                   warnings, unique_elevations, selected, wall_data, error>>

\* abs(e['elevation'] - storey['elevation']) < 0.1, in millimetres.
ElevationTolerance == 100

ElevationNear(a, b) ==
    ~a.nan /\ ~b.nan /\ Abs(a.num * b.den - b.num * a.den) < ElevationTolerance * a.den * b.den

\* Lines 165-166: the elements drawn in the loop of one selected storey.
StoreyElements(elements, storey) ==
    SelectSeq(elements, LAMBDA e : ElevationNear(e.elevation, storey.elevation))

\* vertices[face]: the rows of the face's indices (0-based).
FaceVertices(vertices, face) == [i \in 1..Len(face) |-> vertices[face[i] + 1]]

\* vertices[face] raises IndexError for an index that is no row.
FacesValid(e) ==
    \A k \in 1..Len(e.faces) :
       \A i \in 1..Len(e.faces[k]) : e.faces[k][i] \in 0..(Len(e.vertices) - 1)

\* An outline that is left open.
ClosedOutline_Open(face_vertices) == face_vertices

\* np.vstack((face_vertices, face_vertices[0])): the closed outline.
ClosedOutline(face_vertices) == Append(face_vertices, face_vertices[1])

\* The edges as directed pairs, not sorted.
WallEdges_Directed(faces) ==
    UNION {{<<faces[k][i], faces[k][(i % Len(faces[k])) + 1]>> : i \in 1..Len(faces[k])}
           : k \in 1..Len(faces)}

\* wall-extract2.py lines 188-192: the set of the edges of all faces, an
\* edge being tuple(sorted([face[i], face[(i+1) % len(face)]])).
WallEdges(faces) ==
    UNION {{LET a == faces[k][i]
                b == faces[k][(i % Len(faces[k])) + 1]
            IN  IF a <= b THEN <<a, b>> ELSE <<b, a>> : i \in 1..Len(faces[k])}
           : k \in 1..Len(faces)}

\* The label f"{storey_name} - {element['type']}".
StoreyLabel(storey_name, type) == <<storey_name, " - ", type>>

\* What one pass of the loop over storey_elements draws.  wall-extract2.py
\* (lines 173-216) fills every face of a wall and plots each edge of its
\* edge set, labelled, and plots the closed outline of every face of a slab,
\* labelled; wall-extract.py (lines 173-191) plots the closed outline of
\* every face of any element, labelled.  The edges of a wall are drawn in the
\* iteration order of a set, so they are kept as a set.
DrawElement(pg, label, e) ==
    IF pg = "wall-extract2" /\ e.type = "Wall"
    THEN [gid |-> e.gid, type |-> e.type, name |-> e.name, label |-> label,
          fills |-> [k \in 1..Len(e.faces) |-> FaceVertices(e.vertices, e.faces[k])],
          edges |-> WallEdges(e.faces),
          outlines |-> <<>>]
    ELSE [gid |-> e.gid, type |-> e.type, name |-> e.name, label |-> label,
          fills |-> <<>>,
          edges |-> {},
          outlines |-> [k \in 1..Len(e.faces) |->
                           ClosedOutline(FaceVertices(e.vertices, e.faces[k]))]]

\* Lines 163-191 (wall-extract2.py: 163-216): the loop over the selected
\* storeys, in the order of the selection.
RECURSIVE DrawStoreys(_, _, _, _)
DrawStoreys(pg, names, data, elements) ==
    IF names = <<>> THEN <<>>
    ELSE LET storey == data[CHOOSE k \in 1..Len(data) : data[k].Name = Head(names)]
             storey_elements == StoreyElements(elements, storey)
         IN  [k \in 1..Len(storey_elements) |->
                 DrawElement(pg, StoreyLabel(Head(names), storey_elements[k].type),
                             storey_elements[k])]
             \o DrawStoreys(pg, Tail(names), data, elements)

\* The labels of the labelled artists, in the order they were added: one per
\* plotted edge or outline; ax.fill is given no label.
RECURSIVE ArtistLabels(_)
ArtistLabels(d) ==
    IF d = <<>> THEN <<>>
    ELSE [i \in 1..(Cardinality(Head(d).edges) + Len(Head(d).outlines)) |-> Head(d).label]
         \o ArtistLabels(Tail(d))

\* The storey names of the model that start with an underscore.
UnderscoreNames == {"_Plant"}

\* get_legend_handles_labels(): matplotlib leaves out the artists whose label
\* starts with an underscore.
LegendLabels(labels) == SelectSeq(labels, LAMBDA l : l[1] \notin UnderscoreNames)

\* A legend with an entry per labelled artist, duplicates kept.
ByLabel_KeepsDuplicates(labels) == labels

\* dict(zip(labels, handles)).keys(): the labels, each once, in the order of
\* their first occurrence.
RECURSIVE ByLabel(_)
ByLabel(labels) ==
    IF labels = <<>> THEN <<>>
    ELSE LET rest == ByLabel(SubSeq(labels, 1, Len(labels) - 1))
             l == labels[Len(labels)]
         IN  IF \E i \in 1..Len(rest) : rest[i] = l THEN rest ELSE Append(rest, l)

\* Lines 213-219: the rows of the element table.
ElementTable(elements) ==
    [k \in 1..Len(elements) |->
        [gid |-> elements[k].gid,
         Type |-> elements[k].type,
         Name |-> elements[k].name,
         Elevation |-> Round2(elements[k].elevation),
         VertexCount |-> Len(elements[k].vertices),
         FaceCount |-> Len(elements[k].faces)]]

\* Lines 157-222 and 360: the plot, the legend and the table, or nothing
\* selected; an IndexError of the plot reaches the outer handler.
WX_Plot ==
    /\ page \in WallPages /\ pc = "types" /\ todo = <<>>
    /\ IF level_elements = <<>>
       THEN /\ pc' = "done"
            /\ UNCHANGED <<plotVars, error>>
       ELSE IF \E k \in 1..Len(level_elements) : ~FacesValid(level_elements[k])
       THEN /\ pc' = "done"
            /\ error' = "plot"
            /\ UNCHANGED plotVars
       ELSE /\ drawn' = DrawStoreys(page, selected, storey_data, level_elements)
            /\ legend' = ByLabel(LegendLabels(ArtistLabels(drawn')))
            /\ table' = ElementTable(level_elements)
            /\ pc' = IF page = "wall-extract" THEN "checkbox" ELSE "done"
            /\ UNCHANGED <<simple_drawn, error>>
    /\ UNCHANGED <<funVars, otherVars, page, storeys, ifc, si, queue, element_data, storey_data,
                   warnings, unique_elevations, selected, todo, level_elements, wall_data>>

\* Line 226: st.checkbox("Show simplified wall data").
WX_Checkbox ==
    /\ page = "wall-extract" /\ pc = "checkbox"
    /\ \E show \in BOOLEAN :
          /\ pc' = IF show THEN "reduce" ELSE "done"
          /\ queue' = IF show THEN level_elements ELSE queue
          /\ widgets' = Append(widgets, [kind |-> "checkbox", value |-> show])
    /\ wall_data' = <<>>
    /\ UNCHANGED <<funVars, plotVars, env, runs, fileVars, page, storeys, ifc, si, element_data, storey_data, warnings,
                   unique_elevations, selected, todo, level_elements, error>>

\* An installation whose results for an input vary from call to call.
Recalled_Nothing(memo, v) == {}

\* What the computation of lines 234-257 has returned for these vertices
\* before: np.cov, np.linalg.eigh and the arithmetic are functions of their
\* input on one installation, so the same vertices give the same result.
Recalled(memo, v) == {r.segment : r \in {x \in memo : x.vertices = v}}

\* Lines 228-267 for a wall: the row, or an exception, which nothing catches
\* before the page's outer handler (line 364).
WX_ReduceWall ==
    /\ page = "wall-extract" /\ pc = "reduce"
    /\ queue # <<>> /\ Head(queue).type = "Wall"
    /\ \E sgn \in {1, -1} :
          \E seg \in CenterlineOutcomes(Head(queue).vertices, sgn) :
             /\ Recalled(env, Head(queue).vertices) \subseteq {seg}
             /\ env' = env \cup {[vertices |-> Head(queue).vertices, segment |-> seg]}
             /\ IF seg.raised
                THEN /\ error' = "reduce"
                     /\ pc' = "done"
                     /\ UNCHANGED <<wall_data, queue>>
                ELSE /\ wall_data' = Append(wall_data, WallRow(Head(queue), seg))
                     /\ queue' = Tail(queue)
                     /\ UNCHANGED <<error, pc>>
    /\ UNCHANGED <<funVars, plotVars, widgets, runs, fileVars, page, storeys, ifc, si, element_data, storey_data, warnings,
                   unique_elevations, selected, todo, level_elements>>

\* Line 229: an element that is no wall.
WX_ReduceSkip ==
    /\ page = "wall-extract" /\ pc = "reduce"
    /\ queue # <<>> /\ Head(queue).type # "Wall"
    /\ queue' = Tail(queue)
    /\ UNCHANGED <<funVars, plotVars, otherVars, pc, page, storeys, ifc, si, element_data, storey_data, warnings,
                   unique_elevations, selected, todo, level_elements, wall_data, error>>

\* Line 331: the rows whose rounded 'Elevation' equals (==) the elevation
\* the storey's entry holds, which is the storey's Elevation as read.
LevelWalls(rows, storey) ==
    SelectSeq(rows, LAMBDA w : FloatEq(w.Elevation, storey.elevation))

\* Lines 329-339: one line per row of level_walls, for each selected storey
\* in turn, labelled with the storey's name.
RECURSIVE SimpleWallPlot(_, _, _)
SimpleWallPlot(names, data, rows) ==
    IF names = <<>> THEN <<>>
    ELSE LET storey == data[CHOOSE k \in 1..Len(data) : data[k].Name = Head(names)]
             level_walls == LevelWalls(rows, storey)
         IN  [k \in 1..Len(level_walls) |->
                 [gid |-> level_walls[k].gid,
                  label |-> Head(names),
                  xs |-> <<level_walls[k].Start_X, level_walls[k].End_X>>,
                  ys |-> <<level_walls[k].Start_Y, level_walls[k].End_Y>>]]
             \o SimpleWallPlot(Tail(names), data, rows)

\* Lines 269-357: the export and the simplified plot, or no wall data.
WX_Export ==
    /\ page = "wall-extract" /\ pc = "reduce" /\ queue = <<>>
    /\ pc' = "exported"
    /\ simple_drawn' = IF wall_data # <<>>
                       THEN SimpleWallPlot(selected, storey_data, wall_data)
                       ELSE simple_drawn
    /\ UNCHANGED <<funVars, pageVars, drawn, legend, table, otherVars>>

(***************************************************************************)
(* plan_extract.py                                                         *)
(***************************************************************************)
\* Lines 49-52: by_type returns the entities of a type and of its subtypes,
\* and IfcWallStandardCase is a subtype of IfcWall.
PX_ByType ==
    /\ page = "plan_extract" /\ pc = "by_type"
    /\ LET slabs == SelectSeq(ifc, IsSlab)
           walls == SelectSeq(ifc, IsWall) \o
                    SelectSeq(ifc, LAMBDA e : e.type = "IfcWallStandardCase")
       IN  IF slabs # <<>> \/ walls # <<>>
           THEN /\ queue' = slabs \o walls
                /\ pc' = "elements"
           ELSE /\ pc' = "done"
                /\ UNCHANGED queue
    /\ element_data' = <<>>
    /\ UNCHANGED <<funVars, plotVars, otherVars, page, storeys, ifc, si, storey_data, warnings,
                   unique_elevations, selected, todo, level_elements, wall_data, error>>

\* Lines 62-83.
PX_ProcessSlab ==
    /\ page = "plan_extract" /\ pc = "elements"
    /\ queue # <<>> /\ IsSlab(Head(queue))
    /\ ProcessHead("Slab", NoHint)
    /\ UNCHANGED <<funVars, plotVars, otherVars, page, storeys, ifc, si, storey_data, unique_elevations,
                   selected, todo, level_elements, wall_data>>

\* Lines 86-106.
PX_ProcessWall ==
    /\ page = "plan_extract" /\ pc = "elements"
    /\ queue # <<>> /\ IsWall(Head(queue))
    /\ ProcessHead("Wall", NoHint)
    /\ UNCHANGED <<funVars, plotVars, otherVars, page, storeys, ifc, si, storey_data, unique_elevations,
                   selected, todo, level_elements, wall_data>>

Perms(s) == {[i \in 1..Len(s) |-> s[p[i]]] : p \in Permutations(1..Len(s))}

\* Position x goes after the positions of the sorted order whose keys are
\* not greater than its key.
RECURSIVE InsertSorted(_, _, _)
InsertSorted(order, x, keys) ==
    IF order = <<>> THEN <<x>>
    ELSE IF FloatLt(keys[x], keys[Head(order)]) THEN <<x>> \o order
    ELSE <<Head(order)>> \o InsertSorted(Tail(order), x, keys)

RECURSIVE StableOrder(_, _)
StableOrder(keys, n) ==
    IF n = 0 THEN <<>> ELSE InsertSorted(StableOrder(keys, n - 1), n, keys)

\* list.sort and sorted, of s by keys: stable and ascending on keys that are
\* totally ordered; with a NaN among the keys the comparisons are
\* inconsistent and the result is some permutation.
SortOutcomes(s, keys) ==
    IF \E i \in 1..Len(s) : IsNaN(keys[i])
    THEN Perms(s)
    ELSE {[i \in 1..Len(s) |-> s[StableOrder(keys, Len(s))[i]]]}

\* set(...) of floats: equal values are one member, every NaN is its own.
RECURSIVE SetOfFloats(_)
SetOfFloats(s) ==
    IF s = <<>> THEN <<>>
    ELSE LET rest == SetOfFloats(SubSeq(s, 1, Len(s) - 1))
             x == s[Len(s)]
         IN  IF \E i \in 1..Len(rest) : FloatEq(rest[i], x) THEN rest ELSE Append(rest, x)

\* x in list, for a float x that is a fresh object.
FloatIn(x, list) == \E i \in 1..Len(list) : FloatEq(x, list[i])

\* Lines 108-111: the sort by elevation and the levels on offer.
PX_Sort ==
    /\ page = "plan_extract" /\ pc = "elements" /\ queue = <<>>
    /\ IF element_data # <<>>
       THEN /\ element_data' \in
                  SortOutcomes(element_data,
                               [i \in 1..Len(element_data) |-> element_data[i].elevation])
            /\ LET levels == SetOfFloats([i \in 1..Len(element_data) |->
                                               Round2(element_data[i].elevation)])
               IN  unique_elevations' \in SortOutcomes(levels, levels)
            /\ pc' = "select"
       ELSE /\ pc' = "done"
            /\ UNCHANGED <<element_data, unique_elevations>>
    /\ UNCHANGED <<funVars, plotVars, otherVars, page, storeys, ifc, si, queue, storey_data, warnings,
                   selected, todo, level_elements, wall_data, error>>

\* The elements of one level, compared without rounding.
ElevationElements_Unrounded(elements, elevation) ==
    SelectSeq(elements, LAMBDA e : FloatEq(e.elevation, elevation))

\* Line 131: the elements drawn for one level.
ElevationElements(elements, elevation) ==
    SelectSeq(elements, LAMBDA e : FloatEq(Round2(e.elevation), elevation))

\* The label f"Level {elevation:.2f}m - {element['type']}".
LevelLabel(elevation, type) == <<"Level ", elevation, "m - ", type>>

\* Lines 130-156: the loop over the selected levels, in the order of the
\* selection; every element is drawn as closed outlines.
RECURSIVE DrawLevels(_, _)
DrawLevels(levels, elements) ==
    IF levels = <<>> THEN <<>>
    ELSE LET elevation_elements == ElevationElements(elements, Head(levels))
         IN  [k \in 1..Len(elevation_elements) |->
                 DrawElement("plan_extract",
                             LevelLabel(Head(levels), elevation_elements[k].type),
                             elevation_elements[k])]
             \o DrawLevels(Tail(levels), elements)

\* Lines 114-194: the user selects levels; the elements of the selected
\* levels, their plot, legend and table.
PX_SelectElevations ==
    /\ page = "plan_extract" /\ pc = "select"
    /\ \E s \in Selections(Len(unique_elevations)) :
          selected' = [i \in 1..Len(s) |-> unique_elevations[s[i]]]
    /\ widgets' = Append(widgets, [kind |-> "levels", value |-> selected'])
    /\ level_elements' =
          SelectSeq(element_data, LAMBDA e : FloatIn(Round2(e.elevation), selected'))
    /\ IF level_elements' = <<>>
       THEN /\ pc' = "done"
            /\ UNCHANGED <<plotVars, error>>
       ELSE IF \E k \in 1..Len(level_elements') : ~FacesValid(level_elements'[k])
       THEN /\ pc' = "done"
            /\ error' = "plot"
            /\ UNCHANGED plotVars
       ELSE /\ drawn' = DrawLevels(selected', level_elements')
            /\ legend' = ByLabel(LegendLabels(ArtistLabels(drawn')))
            /\ table' = ElementTable(level_elements')
            /\ pc' = "done"
            /\ UNCHANGED <<simple_drawn, error>>
    /\ UNCHANGED <<funVars, env, runs, fileVars, page, storeys, ifc, si, queue, element_data,
                   storey_data, warnings, unique_elevations, todo, wall_data>>

(***************************************************************************)
(* streamlit_app.py                                                        *)
(***************************************************************************)
\* ifc_file.by_type(t): the entities of the type and of its subtypes.
ByType(model, t) ==
    SelectSeq(model, LAMBDA e : e.type = t \/ (t = "IfcWall" /\ e.type = "IfcWallStandardCase"))

\* Lines 57 and 69-73: the choices of the multiselect, in the order chosen.
TypeSelections(model) ==
    LET element_types == {model[i].type : i \in 1..Len(model)}
    IN  {s \in SeqsUpTo(element_types, MaxSelected) :
            \A i, j \in 1..Len(s) : i # j => s[i] # s[j]}

\* Lines 76-122: the rows of the tables, one table per selected type; of the
\* columns, Name and GUID are kept.
RECURSIVE TypeTables(_, _)
TypeTables(model, types) ==
    IF types = <<>> THEN <<>>
    ELSE LET elements == ByType(model, Head(types))
         IN  [k \in 1..Len(elements) |->
                 [gid |-> elements[k].gid,
                  Type |-> Head(types),
                  Name |-> ElementName(elements[k])]]
             \o TypeTables(model, Tail(types))

\* Lines 57-129: the types are selected and the tables shown.
SA_Tables ==
    /\ page = "streamlit_app" /\ pc = "tables"
    /\ \E selected_types \in TypeSelections(ifc) :
          /\ table' = TypeTables(ifc, selected_types)
          /\ widgets' = Append(widgets, [kind |-> "element types", value |-> selected_types])
    /\ pc' = "done"
    /\ UNCHANGED <<funVars, pageVars, drawn, legend, simple_drawn, env, runs, fileVars>>

Next ==
    \/ OpenModel
    \/ OpenFails
    \/ WX_BeginStorey
    \/ WX_ProcessSlab
    \/ WX_ProcessWall
    \/ WX_EndStorey
    \/ WX_NoGeometry
    \/ WX_SelectStoreys
    \/ WX_SelectTypes
    \/ WX_Plot
    \/ WX_Checkbox
    \/ WX_ReduceWall
    \/ WX_ReduceSkip
    \/ WX_Export
    \/ PX_ByType
    \/ PX_ProcessSlab
    \/ PX_ProcessWall
    \/ PX_Sort
    \/ PX_SelectElevations
    \/ SA_Tables
    \/ WriteFails
    \/ Finally

Spec == Init /\ [][Next]_vars

(***************************************************************************)
(* The handling of the file: the run is of an upload or of a sample, the   *)
(* model has storeys or none and at most one element, or a slab and a      *)
(* wall.  The script runs to its end without waiting for anything: a   *)
(* widget returns its present value, so a step that can be taken is taken. *)
(***************************************************************************)
FileChoices == {"upload", "sample"}

FileModels_SlabAndWall ==
    <<[gid |-> 1, type |-> "IfcSlab", Name |-> Named("Element"), storey |-> 1,
       shape |-> TriangleMesh],
      [gid |-> 2, type |-> "IfcWall", Name |-> Named("Element"), storey |-> 1,
       shape |-> TriangleMesh]>>

FileModels(ss) ==
    IF ss = <<>> THEN {<<>>}
    ELSE {<<>>, FileModels_SlabAndWall} \cup
         {<<[gid |-> 1, type |-> ty, Name |-> Named("Element"), storey |-> 1, shape |-> sh]>> :
             ty \in ElementTypes, sh \in ShapeChoices}

InitFile ==
    /\ pc = "open"
    /\ page \in WallPages \cup {"plan_extract", "streamlit_app"}
    /\ storeys \in {<<>>, <<[Name |-> "Level 1", Elevation |-> 0],
                             [Name |-> "Level 2", Elevation |-> 3000]>>}
    /\ ifc \in FileModels(storeys)
    /\ si = 0
    /\ queue = <<>>
    /\ element_data = <<>>
    /\ storey_data = <<>>
    /\ warnings = <<>>
    /\ unique_elevations = <<>>
    /\ selected = <<>>
    /\ todo = <<>>
    /\ level_elements = <<>>
    /\ wall_data = <<>>
    /\ error = "none"
    /\ PlotIdle
    /\ RunsIdle
    /\ file_to_process \in FileChoices
    /\ NoTempFile
    /\ ProjectIdle
    /\ ReducerIdle

\* The steps of the script other than the reduction of a wall.
NextButReduceWall ==
    \/ OpenModel
    \/ OpenFails
    \/ WriteFails
    \/ WX_BeginStorey
    \/ WX_ProcessSlab
    \/ WX_ProcessWall
    \/ WX_EndStorey
    \/ WX_NoGeometry
    \/ WX_SelectStoreys
    \/ WX_SelectTypes
    \/ WX_Plot
    \/ WX_Checkbox
    \/ WX_ReduceSkip
    \/ WX_Export
    \/ PX_ByType
    \/ PX_ProcessSlab
    \/ PX_ProcessWall
    \/ PX_Sort
    \/ PX_SelectElevations
    \/ SA_Tables
    \/ Finally

\* The loop of line 228 has a wall to reduce: WX_ReduceWall is enabled, as
\* the computation returns a segment or raises.
ReduceWallReady ==
    page = "wall-extract" /\ pc = "reduce" /\ queue # <<>> /\ Head(queue).type = "Wall"

\* Weak fairness of WX_ReduceWall, with its enabling condition written out.
FairReduceWall == []<>(~ReduceWallReady) \/ []<><<WX_ReduceWall>>_vars

SpecFile == InitFile /\ [][Next]_vars /\ WF_vars(NextButReduceWall) /\ FairReduceWall

(***************************************************************************)
(* The script run twice: Streamlit runs the page's script again, from the  *)
(* top, on the same file and on the same installation; the widgets return  *)
(* what the user has selected then.                                        *)
(***************************************************************************)
\* What a run has produced: the values the widgets returned, the projected
\* elements by storey and of the selection, and the rows of the walls.
RunRecord ==
    [widgets |-> widgets,
     storey_data |-> storey_data,
     level_elements |-> level_elements,
     wall_data |-> wall_data]

\* The script starts again: every name of the script is bound anew, the
\* model and the installation stay.
Rerun ==
    /\ pc = "end" /\ runs = <<>>
    /\ runs' = <<RunRecord>>
    /\ pc' = "open"
    /\ si' = 0
    /\ queue' = <<>>
    /\ element_data' = <<>>
    /\ storey_data' = <<>>
    /\ warnings' = <<>>
    /\ unique_elevations' = <<>>
    /\ selected' = <<>>
    /\ todo' = <<>>
    /\ level_elements' = <<>>
    /\ wall_data' = <<>>
    /\ error' = "none"
    /\ drawn' = <<>> /\ legend' = <<>> /\ table' = <<>> /\ simple_drawn' = <<>>
    /\ widgets' = <<>>
    /\ tmp_file_path' = FALSE /\ tmp_file' = "none" /\ unlinked' = 0
    /\ UNCHANGED <<funVars, page, storeys, ifc, env, file_to_process>>

NextTwice == Next \/ Rerun

SpecTwice == InitFile /\ [][NextTwice]_vars

(***************************************************************************)
(* The elevation grouping of plan_extract.py on its own: the input is the  *)
(* element_data the loops have collected, one element per mean Z of        *)
(* ElevationChoices (millimetres), or of an empty mesh.                    *)
(***************************************************************************)
ElevationChoices == {2000, 2001, 2002, 2050, 2150}

LevelMeshes ==
    {[points |-> <<<<0, 0, z>>>>, faces |-> <<<<0, 0, 0>>>>] : z \in ElevationChoices}
    \cup {NoMesh}

CollectedChoices ==
    UNION {{[i \in 1..k |-> ElementInfo(ty[i], i, Named("Element"), m[i], NoHint)] :
                ty \in [1..k -> {"Slab"}], m \in [1..k -> LevelMeshes]}
           : k \in 0..MaxElems}

InitGroup ==
    /\ pc = "elements"
    /\ page = "plan_extract"
    /\ storeys = <<>>
    /\ ifc = <<>>
    /\ si = 1
    /\ queue = <<>>
    /\ element_data \in CollectedChoices
    /\ storey_data = <<>>
    /\ warnings = <<>>
    /\ unique_elevations = <<>>
    /\ selected = <<>>
    /\ todo = <<>>
    /\ level_elements = <<>>
    /\ wall_data = <<>>
    /\ error = "none"
    /\ PlotIdle
    /\ RunsIdle
    /\ FileIdle
    /\ ProjectIdle
    /\ ReducerIdle

NextGroup == PX_Sort \/ PX_SelectElevations

SpecGroup == InitGroup /\ [][NextGroup]_vars

(***************************************************************************)
(* Notions the properties are stated with.                                 *)
(***************************************************************************)
PointEq(p, q) == FloatEq(p.x, q.x) /\ FloatEq(p.y, q.y)

\* p = q + t
PointEqShifted(p, q, t) ==
    /\ FloatEq(p.x, Rat(q.x.num + t[1] * q.x.den, q.x.den))
    /\ FloatEq(p.y, Rat(q.y.num + t[2] * q.y.den, q.y.den))

LengthEq(k, l) == ~k.nan /\ ~l.nan /\ k.sq * l.den * l.den = l.sq * k.den * k.den

\* The length is the number r.
LengthIs(l, r) == ~l.nan /\ l.sq = r * r * l.den * l.den

Centroid(v) == [x |-> Rat(SumX(v), Len(v)), y |-> Rat(SumY(v), Len(v))]

NonCollinear(v) ==
    \E i, j, k \in 1..Len(v) :
        (v[j][1] - v[i][1]) * (v[k][2] - v[i][2])
            # (v[k][1] - v[i][1]) * (v[j][2] - v[i][2])

\* All vertices have the same projected scalar on the principal direction.
Degenerate(v) == Len(v) >= 1 /\ \A i \in 1..Len(v) : ProjectedSigns(v)[i] = 0

\* The per-element loops are over: every slab and wall has been tried.
ExtractionDone ==
    /\ page \in WallPages \cup {"plan_extract"}
    /\ error \notin {"open", "write", "element"}
    /\ pc \notin {"open", "by_type", "elements"}
    /\ ~(pc = "storey" /\ si <= Len(storeys))

\* The projected elements collected by the page.
Collected ==
    IF page \in WallPages
    THEN Flatten([k \in 1..Len(storey_data) |-> storey_data[k].elements])
    ELSE element_data

Times(gid, records) == Cardinality({k \in 1..Len(records) : records[k].gid = gid})

Warned(gid) == \E k \in 1..Len(warnings) : warnings[k] = gid

\* The wall loop is over: it went through every element, or it raised.
ReductionDone == pc = "exported" \/ error = "reduce"

\* The elevation groups of plan_extract.py exist once the levels are listed.
Grouped == page = "plan_extract" /\ pc \in {"select", "done"}

\* The element at position i of element_data is in the group of level k.
InGroup(i, k) ==
    \E j \in 1..Len(ElevationElements(element_data, unique_elevations[k])) :
       ElevationElements(element_data, unique_elevations[k])[j].gid = element_data[i].gid

SameGroup(i, j) == \E k \in 1..Len(unique_elevations) : InGroup(i, k) /\ InGroup(j, k)

\* a and b differ by less than tol.
CloserThan(a, b, tol) ==
    ~a.nan /\ ~b.nan /\ Abs(a.num * b.den - b.num * a.den) < tol * a.den * b.den

ElevationIs(i, z) == FloatEq(element_data[i].elevation, Rat(z, 1))

Triangulated(m) == \A k \in 1..Len(m.faces) : Len(m.faces[k]) = 3

ProjectionKeeps(m, p) ==
    /\ p.ok
    /\ Len(p.vertices) = Len(m.points)
    /\ \A i \in 1..Len(m.points) : p.vertices[i] = <<m.points[i][1], m.points[i][2]>>
    /\ p.faces = m.faces

(***************************************************************************)
(* C1.  As claimed: projecting any mesh M gives as many 2-D vertices as M  *)
(* has points, in order and with only Z dropped, and the faces of M, also  *)
(* when M's faces are n-gons.  This fails for n-gons: the flat index list  *)
(* is cut into triples.                                                    *)
(***************************************************************************)
C1_ProjectionKeepsAnyMesh == pc = "projected" => ProjectionKeeps(mesh, projection)

\* C1, amended: projecting a mesh M whose faces are all triangles gives as
\* many 2-D vertices as M has points, in order and with only Z dropped, and
\* exactly the faces of M.
C1_ProjectionKeepsTriangleMesh ==
    (pc = "projected" /\ Triangulated(mesh)) => ProjectionKeeps(mesh, projection)

C1_Witness ==
    /\ pc = "projected"
    /\ Triangulated(mesh)
    /\ Len(mesh.points) = 2
    /\ Len(mesh.faces) = 2
    /\ mesh.points[1] # mesh.points[2]
    /\ projection.ok

(***************************************************************************)
(* C2.  In a batch of slabs and walls where shape evaluation fails for     *)
(* some elements, no failure of one element ends the batch, and once the   *)
(* batch is through every element whose evaluation succeeds has            *)
(* contributed its projected element, and every failing element has        *)
(* contributed nothing and has a warning carrying its identifier.          *)
(***************************************************************************)
C2_ElementFailuresIsolated ==
    /\ error # "element"
    /\ ExtractionDone =>
          \A i \in 1..Len(ifc) :
             IF ifc[i].shape.fails
             THEN Times(ifc[i].gid, Collected) = 0 /\ Warned(ifc[i].gid)
             ELSE Times(ifc[i].gid, Collected) >= 1 /\ ~Warned(ifc[i].gid)

C2_Witness ==
    /\ ExtractionDone
    /\ \E i, j \in 1..Len(ifc) :
          /\ i < j
          /\ ifc[i].shape.fails /\ Warned(ifc[i].gid)
          /\ ~ifc[j].shape.fails /\ Times(ifc[j].gid, Collected) >= 1

(***************************************************************************)
(* C3.  As claimed: an element whose mesh has zero points is skipped, no   *)
(* projected element for it is added to the collected results.  This       *)
(* fails: nothing raises on an empty mesh, and its projected element, with *)
(* no vertex and no face, is collected.                                    *)
(***************************************************************************)
C3_EmptyMeshSkipped ==
    ExtractionDone =>
       \A i \in 1..Len(ifc) :
          (~ifc[i].shape.fails /\ ifc[i].shape.mesh.points = <<>>) =>
              Times(ifc[i].gid, Collected) = 0

(***************************************************************************)
(* C4.  As claimed: after grouping, every projected element is in exactly  *)
(* one group: in one storey's elements on wall-extract.py, in the elements *)
(* of one of the levels on offer on plan_extract.py.  This fails on        *)
(* plan_extract.py for the projected element of an empty mesh (see C3):    *)
(* its elevation is NaN and it is in no level's elements.                  *)
(***************************************************************************)
C4_ExactlyOneGroup ==
    /\ (page \in WallPages /\ ExtractionDone) =>
          /\ \A k, l \in 1..Len(storey_data) :
                storey_data[k].Name = storey_data[l].Name => k = l
          /\ \A i \in 1..Len(ifc) :
                ~ifc[i].shape.fails => Times(ifc[i].gid, Collected) = 1
    /\ (page = "plan_extract" /\ ExtractionDone /\ pc \in {"select", "done"}) =>
          \A i \in 1..Len(element_data) :
             Cardinality({k \in 1..Len(unique_elevations) :
                             FloatEq(Round2(element_data[i].elevation),
                                     unique_elevations[k])}) = 1

(***************************************************************************)
(* C5.  As claimed: a selected wall with fewer than 3 vertices produces no *)
(* row, and every other selected wall is still reduced and reported.  This *)
(* fails: a wall of 2 vertices gets a row, and a wall of no vertex raises  *)
(* an exception that ends the page before the other walls are reported.    *)
(***************************************************************************)
C5_FewVerticesNoRow ==
    ReductionDone =>
       \A k \in 1..Len(level_elements) :
          level_elements[k].type = "Wall" =>
             IF Len(level_elements[k].vertices) < 3
             THEN Times(level_elements[k].gid, wall_data) = 0
             ELSE Times(level_elements[k].gid, wall_data) = 1

(***************************************************************************)
(* C11.  Without storey containment (plan_extract.py) two elements are in  *)
(* the same elevation group if and only if their elevations rounded to 2   *)
(* decimals are equal: 2.001 and 2.002 share a group, 2.00 and 2.15 do     *)
(* not.                                                                    *)
(***************************************************************************)
C11_SameGroupIffRoundedEqual ==
    Grouped =>
       \A i, j \in 1..Len(element_data) :
          i # j =>
            /\ SameGroup(i, j) <=>
                  FloatEq(Round2(element_data[i].elevation),
                          Round2(element_data[j].elevation))
            /\ (ElevationIs(i, 2001) /\ ElevationIs(j, 2002)) => SameGroup(i, j)
            /\ (ElevationIs(i, 2000) /\ ElevationIs(j, 2150)) => ~SameGroup(i, j)

C11_Witness ==
    /\ Grouped /\ pc = "done"
    /\ Len(level_elements) = 2
    /\ \E i, j \in 1..Len(element_data) :
          ElevationIs(i, 2001) /\ ElevationIs(j, 2002) /\ SameGroup(i, j)

C14_ElevationHintOrMeanZ ==
    ExtractionDone =>
       \A k \in 1..Len(Collected) :
          LET e == Collected[k]
              points == WorldMesh(ifc[e.gid]).points
              n == Len(points)
          IN  IF page # "plan_extract"
              THEN ~e.elevation.nan /\
                   e.elevation.num = storeys[ifc[e.gid].storey].Elevation * e.elevation.den
              ELSE IF n = 0 THEN e.elevation.nan
              ELSE ~e.elevation.nan /\
                   e.elevation.num * n =
                       SumSeq([i \in 1..n |-> points[i][3]]) * e.elevation.den

C14_Witness ==
    /\ page # "plan_extract" /\ ExtractionDone
    /\ \E k \in 1..Len(Collected) :
          /\ FloatEq(Collected[k].elevation, Rat(3000, 1))
          /\ \E i \in 1..Len(WorldMesh(ifc[Collected[k].gid]).points) :
                WorldMesh(ifc[Collected[k].gid]).points[i][3] # 3000

(***************************************************************************)
(* C6.  As claimed: for a degenerate wall (all vertices have the same      *)
(* projected scalar) the reduction either fails or returns length 0 with   *)
(* start = end = the centroid of the vertices.  Stated for walls of at     *)
(* least 3 vertices, which the claim covers.                               *)
(***************************************************************************)
C6_DegenerateFailsOrZeroLength ==
    (pc \in {"reduced", "transformed"} /\ Len(cloud) >= 3 /\ Degenerate(cloud)) =>
        \/ segment.raised
        \/ /\ LengthIs(segment.length, 0)
           /\ PointEq(segment.start, Centroid(cloud))
           /\ PointEq(segment.end, Centroid(cloud))

(***************************************************************************)
(* C7.  As claimed: every segment produced has a length >= 0, which is 0   *)
(* only for a cloud of zero extent along its principal axis; and when two  *)
(* vertices have different projected scalars, both clusters are non-empty  *)
(* and start differs from end.  Stated for walls of at least 3 vertices,   *)
(* which the claim covers.                                                 *)
(***************************************************************************)
C7_LengthNonNegative ==
    (pc \in {"reduced", "transformed"} /\ Len(cloud) >= 3 /\ ~segment.raised) =>
        /\ ~segment.length.nan
        /\ segment.length.sq >= 0
        /\ segment.length.sq = 0 => Degenerate(cloud)
        /\ ~Degenerate(cloud) =>
              /\ segment.cluster1 # <<>>
              /\ segment.cluster2 # <<>>
              /\ ~PointEq(segment.start, segment.end)

(***************************************************************************)
(* C8.  For the 8-point box wall with X in {0,1}, Y in {0,5}, Z in {0,3}   *)
(* the centerline has length 5 and runs along the long axis, and so it     *)
(* does with X and Y swapped.                                              *)
(***************************************************************************)
C8_BoxLengthFive ==
    (pc \in {"reduced", "transformed"} /\ cloud \in {BoxCloud, BoxCloudSwapped}) =>
        /\ ~segment.raised
        /\ LengthIs(segment.length, 5)
        /\ Round2Length(segment.length) = Rat(500, 100)
        /\ cloud = BoxCloud => FloatEq(segment.start.x, segment.end.x)
        /\ cloud = BoxCloudSwapped => FloatEq(segment.start.y, segment.end.y)

C8_Witness ==
    /\ pc = "reduced"
    /\ cloud = BoxCloudSwapped
    /\ eigsign = -1
    /\ ~segment.raised
    /\ Len(segment.cluster1) = 4

(***************************************************************************)
(* C9.  For a cloud of at least 3 non-collinear points, start, end and     *)
(* length are the same for every permutation of the vertex order.          *)
(***************************************************************************)
C9_PermutationInvariant ==
    (/\ pc = "transformed"
     /\ transform.kind = "permute"
     /\ Len(cloud) >= 3
     /\ NonCollinear(cloud)) =>
        /\ ~segment.raised
        /\ ~segment2.raised
        /\ PointEq(segment2.start, segment.start)
        /\ PointEq(segment2.end, segment.end)
        /\ LengthEq(segment2.length, segment.length)

C9_Witness ==
    /\ pc = "transformed"
    /\ transform.kind = "permute"
    /\ Len(cloud) >= 3
    /\ NonCollinear(cloud)
    /\ cloud2[1] # cloud[1]
    /\ segment2.cluster1 # segment.cluster1
    /\ ~segment2.raised

(***************************************************************************)
(* C10.  For a cloud of at least 3 non-collinear points and a vector t,    *)
(* translating every vertex by t leaves the length unchanged and moves     *)
(* start and end by exactly t.                                             *)
(***************************************************************************)
C10_TranslationEquivariant ==
    (/\ pc = "transformed"
     /\ transform.kind = "translate"
     /\ Len(cloud) >= 3
     /\ NonCollinear(cloud)) =>
        /\ ~segment.raised
        /\ ~segment2.raised
        /\ LengthEq(segment2.length, segment.length)
        /\ PointEqShifted(segment2.start, segment.start, transform.shift)
        /\ PointEqShifted(segment2.end, segment.end, transform.shift)

C10_Witness ==
    /\ pc = "transformed"
    /\ transform.kind = "translate"
    /\ transform.shift = <<-3, 2>>
    /\ Len(cloud) >= 3
    /\ NonCollinear(cloud)
    /\ ~segment2.raised
    /\ ~PointEq(segment2.start, segment.start)

(***************************************************************************)
(* The plot.  drawn holds, per pass of the loop over storey_elements, what *)
(* the pass emitted; the element it was emitted for is the one of          *)
(* level_elements with the same GlobalId.                                  *)
(***************************************************************************)
Plotted == drawn # <<>>

SourceOf(d) == level_elements[CHOOSE i \in 1..Len(level_elements) : level_elements[i].gid = d.gid]

\* The unordered index pairs at consecutive positions of the faces, the last
\* position being followed by the first.
UndirectedPairs(faces) ==
    UNION {{{faces[k][i], faces[k][IF i = Len(faces[k]) THEN 1 ELSE i + 1]}
               : i \in 1..Len(faces[k])} : k \in 1..Len(faces)}

TwoTriangles == <<<<0, 1, 2>>, <<0, 2, 3>>>>

(***************************************************************************)
(* C15.  In the plan of wall-extract2.py, the number of edge primitives    *)
(* emitted for a wall equals the number of distinct unordered pairs of     *)
(* vertex indices at consecutive positions (with wrap-around) of its       *)
(* faces; two triangles sharing a diagonal give exactly 5 edges.           *)
(***************************************************************************)
C15_WallEdgesOncePerPair ==
    page = "wall-extract2" =>
       \A k \in 1..Len(drawn) :
          drawn[k].type = "Wall" =>
             /\ Cardinality(drawn[k].edges) =
                   Cardinality(UndirectedPairs(SourceOf(drawn[k]).faces))
             /\ SourceOf(drawn[k]).faces = TwoTriangles =>
                   Cardinality(drawn[k].edges) = 5

C15_Witness ==
    /\ page = "wall-extract2" /\ Plotted
    /\ \E k \in 1..Len(drawn) :
          /\ drawn[k].type = "Wall"
          /\ SourceOf(drawn[k]).faces = TwoTriangles
          /\ Cardinality(drawn[k].edges) = 5

(***************************************************************************)
(* C16.  In the plan of wall-extract2.py a slab gives one outline per face *)
(* and no fill, the outline being the face's vertices in order followed by *)
(* the first of them again; fills are emitted only for walls, one per face *)
(* of the wall.                                                            *)
(***************************************************************************)
IsClosedOutlineOf(o, face, vertices) ==
    /\ Len(o) = Len(face) + 1
    /\ \A i \in 1..Len(face) : o[i] = vertices[face[i] + 1]
    /\ o[Len(face) + 1] = vertices[face[1] + 1]

C16_SlabOutlinesWallFills ==
    page = "wall-extract2" =>
       \A k \in 1..Len(drawn) :
          LET e == SourceOf(drawn[k])
          IN  /\ drawn[k].type = "Slab" =>
                    /\ drawn[k].fills = <<>>
                    /\ drawn[k].edges = {}
                    /\ Len(drawn[k].outlines) = Len(e.faces)
                    /\ \A f \in 1..Len(e.faces) :
                          IsClosedOutlineOf(drawn[k].outlines[f], e.faces[f], e.vertices)
              /\ drawn[k].type = "Wall" => Len(drawn[k].fills) = Len(e.faces)
              /\ drawn[k].fills # <<>> => drawn[k].type = "Wall"

C16_Witness ==
    /\ page = "wall-extract2" /\ Plotted
    /\ \E k \in 1..Len(drawn) : drawn[k].type = "Slab" /\ Len(drawn[k].outlines) = 2
    /\ \E k \in 1..Len(drawn) : drawn[k].type = "Wall" /\ Len(drawn[k].fills) = 12

(***************************************************************************)
(* C17.  As claimed: once the plan is assembled, the legend holds exactly  *)
(* one entry for every label that at least one emitted primitive carries,  *)
(* and no entry for a label that no primitive carries.                     *)
(***************************************************************************)
CarriesLabel(d) == d.edges # {} \/ d.outlines # <<>>

C17_LegendOnePerCarriedLabel ==
    Plotted =>
       /\ \A k \in 1..Len(drawn) :
             CarriesLabel(drawn[k]) =>
                Cardinality({i \in 1..Len(legend) : legend[i] = drawn[k].label}) = 1
       /\ \A i \in 1..Len(legend) :
             \E k \in 1..Len(drawn) : CarriesLabel(drawn[k]) /\ drawn[k].label = legend[i]

(***************************************************************************)
(* C18.  As claimed: in the sequence of what the plan emits, everything    *)
(* emitted for an element of an earlier selected storey precedes           *)
(* everything emitted for an element of a later selected storey, and the   *)
(* elements of one storey come in the order in which storey_data holds     *)
(* them.                                                                   *)
(***************************************************************************)
\* The entry of storey_data that holds the element with this GlobalId.
OwnerOf(gid) ==
    CHOOSE k \in 1..Len(storey_data) :
       \E i \in 1..Len(storey_data[k].elements) : storey_data[k].elements[i].gid = gid

\* The position of the element's storey in the selection.
SelectedPos(gid) ==
    CHOOSE p \in 1..Len(selected) : selected[p] = storey_data[OwnerOf(gid)].Name

\* The position of the element among the elements of its storey.
GrouperPos(gid) ==
    CHOOSE i \in 1..Len(storey_data[OwnerOf(gid)].elements) :
       storey_data[OwnerOf(gid)].elements[i].gid = gid

C18_StoreysInSelectionOrder ==
    (page \in WallPages /\ Plotted) =>
       \A i, j \in 1..Len(drawn) :
          i < j =>
             /\ SelectedPos(drawn[i].gid) <= SelectedPos(drawn[j].gid)
             /\ SelectedPos(drawn[i].gid) = SelectedPos(drawn[j].gid) =>
                   GrouperPos(drawn[i].gid) <= GrouperPos(drawn[j].gid)

(***************************************************************************)
(* One storey selected with all the element types it offers (the default   *)
(* of the type selection), on wall-extract.py; its contained elements are  *)
(* the related elements of the storey of that name in the model file.      *)
(***************************************************************************)
WholeStoreySelected ==
    /\ page = "wall-extract"
    /\ Len(selected) = 1 /\ todo = <<>> /\ pc # "types"
    /\ level_elements = StoreyNamed(selected[1]).elements

Contained == RelElements(CHOOSE i \in 1..Len(storeys) : storeys[i].Name = selected[1])

ContainedWalls == SelectSeq(Contained, LAMBDA e : e.type # "IfcSlab")

\* The contained elements whose shape evaluation returned a mesh.
Evaluated(elements) == SelectSeq(elements, LAMBDA e : ~e.shape.fails)

OnePerElement(elements, records) ==
    /\ Len(records) = Len(elements)
    /\ \A k \in 1..Len(elements) : Times(elements[k].gid, records) = 1

SlabAndBoxWall == ifc = ExtraModels_SlabAndBoxWall

ScenarioHolds ==
    /\ Len(level_elements) = 2
    /\ pc = "exported" =>
          Len(wall_data) = 1 /\ FloatEq(wall_data[1].Length, Rat(5, 1))

Unnamed(gid) == ifc[gid].Name.none

C20_NoNameShownAsUnnamed ==
    /\ \A k \in 1..Len(Collected) :
          Unnamed(Collected[k].gid) => Collected[k].name = Named("Unnamed")
    /\ \A k \in 1..Len(table) :
          Unnamed(table[k].gid) => table[k].Name = Named("Unnamed")
    /\ \A k \in 1..Len(wall_data) :
          Unnamed(wall_data[k].gid) => wall_data[k].Name = Named("Unnamed")

(***************************************************************************)
(* C28.  As claimed: on plan_extract.py every wall of the model has at     *)
(* most one projected element in element_data, a wall of type              *)
(* IfcWallStandardCase included.                                           *)
(***************************************************************************)
C28_WallProjectedAtMostOnce ==
    (page = "plan_extract" /\ ExtractionDone) =>
       \A i \in 1..Len(ifc) :
          ifc[i].type \in {"IfcWall", "IfcWallStandardCase"} =>
             Times(ifc[i].gid, element_data) <= 1

(***************************************************************************)
(* C26.  As claimed: in the plot of the wall-extract pages every selected  *)
(* element is drawn exactly once, in the pass of the selected storey that  *)
(* contains it (under that storey's label), also when two selected storeys *)
(* are less than 0.1 apart.                                                *)
(***************************************************************************)
DrawnFor(gid) == {k \in 1..Len(drawn) : drawn[k].gid = gid}

C26_DrawnOnceUnderOwnStorey ==
    (page \in WallPages /\ Plotted) =>
       \A i \in 1..Len(level_elements) :
          /\ Cardinality(DrawnFor(level_elements[i].gid)) = 1
          /\ \A k \in DrawnFor(level_elements[i].gid) :
                drawn[k].label[1] = storey_data[OwnerOf(level_elements[i].gid)].Name

(***************************************************************************)
(* The largest vertex index the faces of a projected element refer to, -1  *)
(* when there is no face.                                                  *)
(***************************************************************************)
FaceIndices(faces) == UNION {{faces[k][i] : i \in 1..Len(faces[k])} : k \in 1..Len(faces)}

MaxIndex(faces) ==
    IF FaceIndices(faces) = {} THEN -1
    ELSE CHOOSE m \in FaceIndices(faces) : \A x \in FaceIndices(faces) : x <= m

(***************************************************************************)
(* C22, as claimed: the vertex sequence of every ProjectedElement is as    *)
(* long as the largest index its faces refer to, plus 1, for every mesh    *)
(* whose face indices are within bounds.                                   *)
(***************************************************************************)
C22_VerticesEqualMaxIndexPlusOne ==
    (pc = "projected" /\ projection.ok) =>
       Len(projection.vertices) = MaxIndex(projection.faces) + 1

(***************************************************************************)
(* C22, amended: the vertex sequence of every ProjectedElement is at least *)
(* as long as the largest index its faces refer to, plus 1 (no face index  *)
(* dangles), for every mesh whose face indices are within bounds; it is    *)
(* longer when the last points of the mesh are in no face.                 *)
(***************************************************************************)
C22_NoDanglingIndex ==
    (pc = "projected" /\ projection.ok) =>
       /\ MaxIndex(projection.faces) + 1 <= Len(projection.vertices)
       /\ Len(projection.vertices) = Len(mesh.points)
       /\ \A k \in 1..Len(projection.faces) :
             \A i \in 1..Len(projection.faces[k]) : projection.faces[k][i] >= 0

C22_Witness ==
    /\ pc = "projected" /\ projection.ok
    /\ Len(projection.vertices) = 2
    /\ MaxIndex(projection.faces) = 0

(***************************************************************************)
(* The clusters of a reduction, as sets of vertex positions, and the mean  *)
(* of the vertices at a set of positions.                                  *)
(***************************************************************************)
Members(idx) == {idx[k] : k \in 1..Len(idx)}

IsCentroidOf(p, v, S) ==
    /\ ~p.x.nan /\ ~p.y.nan
    /\ p.x.num * Cardinality(S) =
          p.x.den * SumSeq([i \in 1..Len(v) |-> IF i \in S THEN v[i][1] ELSE 0])
    /\ p.y.num * Cardinality(S) =
          p.y.den * SumSeq([i \in 1..Len(v) |-> IF i \in S THEN v[i][2] ELSE 0])

\* The sign of the vertex's projected scalar minus the mean projected scalar,
\* along the eigenvector as eigh returned it.
ScalarVsMean(i) == eigsign * ProjectedSigns(cloud)[i]

(***************************************************************************)
(* C23.  The clustering partitions the wall's vertices: every vertex is in *)
(* exactly one cluster, cluster 1 holds exactly the vertices whose         *)
(* projected scalar is below the mean projected scalar and cluster 2 those *)
(* at or above it; start is the mean of the vertices of cluster 1 and end  *)
(* the mean of the vertices of cluster 2, in original coordinates.  Stated *)
(* for walls of two or more vertices, where the covariance is defined.     *)
(***************************************************************************)
C23_ClustersPartitionByMean ==
    (pc \in {"reduced", "transformed"} /\ Len(cloud) >= 2) =>
        /\ ~segment.raised
        /\ Members(segment.cluster1) \cup Members(segment.cluster2) = 1..Len(cloud)
        /\ Members(segment.cluster1) \cap Members(segment.cluster2) = {}
        /\ Len(segment.cluster1) + Len(segment.cluster2) = Len(cloud)
        /\ \A i \in 1..Len(cloud) :
              /\ i \in Members(segment.cluster1) <=> ScalarVsMean(i) < 0
              /\ i \in Members(segment.cluster2) <=> ScalarVsMean(i) >= 0
        /\ segment.cluster1 # <<>> =>
              IsCentroidOf(segment.start, cloud, Members(segment.cluster1))
        /\ segment.cluster2 # <<>> =>
              IsCentroidOf(segment.end, cloud, Members(segment.cluster2))

C23_Witness ==
    /\ pc = "reduced" /\ Len(cloud) = 3 /\ ~segment.raised
    /\ Len(segment.cluster1) = 1
    /\ \E i \in Members(segment.cluster2) : ScalarVsMean(i) = 0
    /\ \E i \in Members(segment.cluster2) : ScalarVsMean(i) > 0
    /\ ~PointEq(segment.start, segment.end)

(***************************************************************************)
(* C24, as claimed: when all vertices of a wall produce the same projected *)
(* scalar, cluster 2 is empty and cluster 1 holds all the vertices.        *)
(***************************************************************************)
C24_DegenerateClusterTwoEmpty ==
    (pc \in {"reduced", "transformed"} /\ Len(cloud) >= 2 /\ Degenerate(cloud)) =>
        /\ segment.cluster2 = <<>>
        /\ Len(segment.cluster1) = Len(cloud)

(***************************************************************************)
(* C24, amended: when all vertices of a wall (two or more) produce the     *)
(* same projected scalar, which is then the mean projected scalar, cluster *)
(* 1 is empty and cluster 2 holds all the vertices.                        *)
(***************************************************************************)
C24_DegenerateClusterOneEmpty ==
    (pc \in {"reduced", "transformed"} /\ Len(cloud) >= 2 /\ Degenerate(cloud)) =>
        /\ ~segment.raised
        /\ segment.cluster1 = <<>>
        /\ Members(segment.cluster2) = 1..Len(cloud)

C24_Witness ==
    /\ pc = "reduced" /\ Len(cloud) = 3 /\ Degenerate(cloud)
    /\ segment.cluster1 = <<>>
    /\ Len(segment.cluster2) = 3
    /\ segment.start.x.nan

(***************************************************************************)
(* The ProjectedElements collected so far in a run: on the wall-extract    *)
(* pages those of the storeys already stored and those of the storey in    *)
(* progress, on plan_extract.py element_data.                              *)
(***************************************************************************)
Batch ==
    IF page \in WallPages
    THEN Flatten([k \in 1..Len(storey_data) |-> storey_data[k].elements])
         \o (IF pc = "elements" THEN element_data ELSE <<>>)
    ELSE element_data

IsPrefix(s, t) == Len(s) <= Len(t) /\ \A k \in 1..Len(s) : s[k] = t[k]

\* t holds the records of s, each as often as s, in any order.
SameRecords(s, t) ==
    /\ Len(s) = Len(t)
    /\ \A k \in 1..Len(s) :
          Cardinality({j \in 1..Len(t) : t[j] = s[k]}) =
             Cardinality({j \in 1..Len(s) : s[j] = s[k]})

\* The step of plan_extract.py after its loops: element_data.sort(...).
SortStep == page = "plan_extract" /\ pc = "elements" /\ queue = <<>>

(***************************************************************************)
(* C25, as claimed: in every step of a run the collected ProjectedElements *)
(* stay a prefix of the collection after the step, so that what is         *)
(* collected at any point is a prefix of the final collection and nothing  *)
(* collected is modified or removed later.                                 *)
(***************************************************************************)
C25_CollectedIsPrefixOfFinal == [][IsPrefix(Batch, Batch')]_vars

(***************************************************************************)
(* C25, amended: while the element loops run, the collected                *)
(* ProjectedElements stay a prefix of the collection after each step       *)
(* (processing or failing on an element modifies and removes nothing), so  *)
(* they are a prefix of the collection as it is when the loops end;        *)
(* plan_extract.py then sorts that collection by elevation, which may      *)
(* reorder the elements and modifies and removes none.                     *)
(***************************************************************************)
C25_CollectedOnlyGrows ==
    [][IF SortStep THEN SameRecords(Batch, Batch') ELSE IsPrefix(Batch, Batch')]_vars

C25_Witness ==
    /\ page = "plan_extract" /\ pc = "select"
    /\ Len(element_data) = 2
    /\ element_data[1].gid > element_data[2].gid
    /\ FloatLt(element_data[1].elevation, element_data[2].elevation)

\* The lines of the simplified wall plot that show the row of one wall.
SimpleDrawnFor(gid) == {k \in 1..Len(simple_drawn) : simple_drawn[k].gid = gid}

\* C27: every row of wall_data is drawn exactly once in the simplified wall
\* plot, under the selected storey that contains the wall, whatever the
\* storeys' elevations are.
C27_EachRowDrawnOnceUnderItsStorey ==
    (page = "wall-extract" /\ pc = "exported") =>
       \A i \in 1..Len(wall_data) :
          /\ Cardinality(SimpleDrawnFor(wall_data[i].gid)) = 1
          /\ \A k \in SimpleDrawnFor(wall_data[i].gid) :
                simple_drawn[k].label = storey_data[OwnerOf(wall_data[i].gid)].Name

\* C29: the temporary copy of an upload, once written, is eventually
\* deleted, by exactly one call of os.unlink, on every path of the run: the
\* run to the end of the page, the parse error of ifcopenshell.open, and
\* st.stop() for a model without storeys.  In the run of a sample no file is
\* written and os.unlink is never called.
C29_TempCopyDeletedExactlyOnce ==
    /\ (tmp_file = "written") ~> (tmp_file = "deleted" /\ unlinked = 1)
    /\ [](tmp_file = "written" => (unlinked = 0 /\ ~IsStr(file_to_process)))
    /\ [](tmp_file = "deleted" => unlinked = 1)
    /\ [](IsStr(file_to_process) => (tmp_file = "none" /\ unlinked = 0))

\* The run of an upload without storeys was stopped by st.stop() and the
\* copy is deleted.
C29_Witness ==
    /\ page = "wall-extract" /\ storeys = <<>> /\ pc = "end"
    /\ file_to_process = "upload"
    /\ tmp_file = "deleted" /\ unlinked = 1

\* The present run is the second one and has ended, and its widgets have
\* returned what they returned in the first run.
SameSelectionTwice == pc = "end" /\ runs # <<>> /\ widgets = runs[1].widgets

====
